---- MODULE Spec2Model ----
(***************************************************************************)
(* Model of items/models.py: the persistent entities of the warehouse      *)
(* application (measure units, material assets, amount constraints,        *)
(* document types, the warehouse and contractor-group trees, contractors   *)
(* and documents), the rows stored for each of them, and the in-memory     *)
(* AmountConstraints instances whose min_amount / max_amount accessors map *)
(* the sentinel -1 to infinity.                                            *)
(*                                                                         *)
(* Warehouse and ContractorGroup derive from MPTTModel.  models.py         *)
(* declares their name and parent columns; the nested-set columns lft,     *)
(* rght and tree_id, and the code that maintains them and checks a move    *)
(* against them, belong to the base class and are not part of models.py.   *)
(* The rows of the two trees hold name and parent.  What the base class    *)
(* decides on its own columns is an input of the operation, and the one    *)
(* thing it writes while the rows stay as they are is recorded in          *)
(* `rewritten`.                                                            *)
(*                                                                         *)
(* A table is a function from the primary keys of its stored rows to the   *)
(* row.  A foreign key holds the primary key of the row it refers to; 0    *)
(* stands for NULL / None.  A name is a small number.  The columns with no *)
(* constraint of their own (the names of assets and contractors,           *)
(* description, address, phone, created, modified) take part in no         *)
(* operation modelled here and are left out of the rows.                   *)
(***************************************************************************)
EXTENDS Integers, FiniteSets

VARIABLES
    measureUnit,        \* pk -> [name]
    materialAsset,      \* pk -> [part_number, measure_unit]
    amountConstraints,  \* pk -> [material_asset, _min_amount, _max_amount]
    documentType,       \* pk -> [name, direction]
    warehouse,          \* pk -> [name, parent]
    contractorGroup,    \* pk -> [name, parent]
    contractor,         \* set of primary keys of the stored Contractor rows
    document,           \* pk -> [document_type, warehouse, contractor]
    seq,                \* table name -> last primary key handed out
    cap,                \* table name -> primary keys the run may hand out
    inst,               \* in-memory AmountConstraints instances
    rewritten,          \* tree table -> nested-set columns rewritten by a refused delete
    error               \* exception raised by the last operation, "" if none

vars == <<measureUnit, materialAsset, amountConstraints, documentType, warehouse,
          contractorGroup, contractor, document, seq, cap, inst, rewritten, error>>

----------------------------------------------------------------------------
(* Bounds of the model. *)

\* Largest amount assigned through the setters.
MaxAmount == 1
\* Rows ever inserted into the amount-constraints table.
MaxConstraints == 1
\* Rows ever inserted into the material-asset table.
MaxAssets == 2
\* Rows ever inserted into the warehouse table.
MaxNodes == 3
\* Rows ever inserted into the contractor-group table.
MaxGroups == 2
\* Rows ever inserted into the document-type table.
MaxDocumentTypes == 3
\* Rows ever inserted into each table when all eight tables are exercised together.
MaxRows == 1
\* Rows ever inserted into the measure-unit table next to the material assets.
MaxUnits == 1
\* Part numbers given to material assets: 1..MaxPartNumber.
MaxPartNumber == 2
\* Largest on-hand quantity compared against a constraint.
MaxQuantity == 2

\* The in-memory instances of AmountConstraints: two copies, so that both can
\* hold the same stored row.
Copies == {"a", "b"}

Tables == {"MeasureUnit", "MaterialAsset", "AmountConstraints", "DocumentType",
           "Warehouse", "ContractorGroup", "Contractor", "Document"}

\* The tables of the models derived from MPTTModel.
TreeTables == {"Warehouse", "ContractorGroup"}

Empty == [pk \in {} |-> 0]

\* The row `row` stored under `pk`, inserted or overwritten.
Put(table, pk, row) ==
    [k \in DOMAIN table \cup {pk} |-> IF k = pk THEN row ELSE table[k]]

\* The table without the row under `pk`.
Remove(table, pk) == [k \in DOMAIN table \ {pk} |-> table[k]]

----------------------------------------------------------------------------
(* Python numbers: an int n, or the floats inf and -inf. *)

PyInt(n) == [inf |-> 0, n |-> n]
PosInf == [inf |-> 1, n |-> 0]
NegInf == [inf |-> -1, n |-> 0]

\* math.isinf
isinf(v) == v.inf # 0

\* a <= b on Python numbers
Leq(a, b) ==
    IF a.inf = -1 \/ b.inf = 1 THEN TRUE
    ELSE IF a.inf = 1 \/ b.inf = -1 THEN FALSE
    ELSE a.n <= b.n

\* The values assigned through the setters.
Values == {PosInf, NegInf} \cup {PyInt(n) : n \in -1..MaxAmount}

\* The on-hand quantities compared against a constraint.
Quantities == {PyInt(q) : q \in 0..MaxQuantity}

----------------------------------------------------------------------------
(* AmountConstraints *)

\* Default of _min_amount and _max_amount.
DefaultAmount == -1

\* No instance bound to the copy yet.
NoInstance == [pk |-> -1, material_asset |-> 0,
               _min_amount |-> DefaultAmount, _max_amount |-> DefaultAmount]

\* The getter with the sentinel test off by one: 0 read as no limit.
min_amount_ZeroUnbounded(r) ==
    IF r._min_amount <= 0 THEN PosInf ELSE PyInt(r._min_amount)

\* AmountConstraints.min_amount (getter)
min_amount(r) == IF r._min_amount < 0 THEN PosInf ELSE PyInt(r._min_amount)

\* AmountConstraints.max_amount (getter)
max_amount(r) == IF r._max_amount < 0 THEN PosInf ELSE PyInt(r._max_amount)

\* The field value AmountConstraints.min_amount (setter) assigns for `value`.
SetMinField(value) == IF isinf(value) THEN -1 ELSE value.n

\* The setter storing 0, not the sentinel, for infinity.
SetMaxFieldZero(value) == IF isinf(value) THEN 0 ELSE value.n

\* The field value AmountConstraints.max_amount (setter) assigns for `value`.
SetMaxField(value) == IF isinf(value) THEN -1 ELSE value.n

\* The row an instance is stored as.
RowOf(r) == [material_asset |-> r.material_asset,
             _min_amount |-> r._min_amount, _max_amount |-> r._max_amount]

\* material_asset is NOT NULL and refers to a stored MaterialAsset.
ConstraintAssetExists(a) == a \in DOMAIN materialAsset

\* material_asset without unique=True.
ConstraintAssetFreeAlways(pk, a) == TRUE

\* material_asset is unique: no row other than `pk` holds asset `a`.
ConstraintAssetFree(pk, a) ==
    \A k \in DOMAIN amountConstraints \ {pk} : amountConstraints[k].material_asset # a

\* self.save() of an instance r: an UPDATE of the row of its primary key when
\* that row is stored, an INSERT otherwise (under the instance's primary key if
\* it has one, under the next key of the table if not).  Either is refused with
\* IntegrityError when a constraint of the table fails.  The result names the
\* exception, the primary key of the instance and the table afterwards.
SaveConstraint(r) ==
    IF ~ConstraintAssetExists(r.material_asset)
          \/ ~ConstraintAssetFree(r.pk, r.material_asset)
    THEN [error |-> "IntegrityError", pk |-> r.pk, rows |-> amountConstraints]
    ELSE LET pk == IF r.pk # 0 THEN r.pk ELSE seq["AmountConstraints"] + 1 IN
         [error |-> "", pk |-> pk, rows |-> Put(amountConstraints, pk, RowOf(r))]

\* The instance r of copy c saved: the table and the instance afterwards.  The
\* assignment made before save() stays in the instance when save() raises.
Save(c, r) ==
    LET out == SaveConstraint(r) IN
    /\ out.pk <= cap["AmountConstraints"]
    /\ amountConstraints' = out.rows
    /\ inst' = [inst EXCEPT ![c] = [r EXCEPT !.pk = out.pk]]
    /\ seq' = IF out.pk > seq["AmountConstraints"]
              THEN [seq EXCEPT !["AmountConstraints"] = out.pk] ELSE seq
    /\ error' = out.error

OtherTables == <<measureUnit, materialAsset, documentType, warehouse,
                 contractorGroup, contractor, document, rewritten>>

\* The variables no insert, update or accepted delete of a stored row touches.
Frame == <<cap, inst, rewritten>>

\* The next primary key of table t, handed out while the run may insert.
CanInsert(t) == seq[t] < cap[t]
NextPk(t) == seq[t] + 1
Advance(t) == [seq EXCEPT ![t] = NextPk(t)]

\* name is unique (MeasureUnit, DocumentType, Warehouse, ContractorGroup): no
\* row of the table other than `pk` holds `name`.
NameFree(table, pk, name) == \A k \in DOMAIN table \ {pk} : table[k].name # name

\* The names a run gives to a new row of table t: the first name, which is
\* taken while a row holds it, and one no row has had.
Names(t) == {1, NextPk(t)}

\* AmountConstraints(material_asset=a): a new unsaved instance with the defaults.
ConstraintNew(c, a) ==
    /\ inst' = [inst EXCEPT ![c] = [pk |-> 0, material_asset |-> a,
                                    _min_amount |-> DefaultAmount,
                                    _max_amount |-> DefaultAmount]]
    /\ error' = ""
    /\ UNCHANGED <<amountConstraints, seq, cap, OtherTables>>

\* AmountConstraints.objects.get(pk=pk): a copy of the stored row.
ConstraintGet(c, pk) ==
    /\ pk \in DOMAIN amountConstraints
    /\ inst' = [inst EXCEPT ![c] =
                  [pk |-> pk,
                   material_asset |-> amountConstraints[pk].material_asset,
                   _min_amount |-> amountConstraints[pk]._min_amount,
                   _max_amount |-> amountConstraints[pk]._max_amount]]
    /\ error' = ""
    /\ UNCHANGED <<amountConstraints, seq, cap, OtherTables>>

\* instance.save()
ConstraintSave(c) ==
    /\ inst[c].pk >= 0
    /\ Save(c, inst[c])
    /\ UNCHANGED <<cap, OtherTables>>

\* The setter without its self.save(): only the instance changes.
ConstraintSetMinUnsaved(c, value) ==
    /\ inst[c].pk >= 0
    /\ inst' = [inst EXCEPT ![c]._min_amount = SetMinField(value)]
    /\ error' = ""
    /\ UNCHANGED <<amountConstraints, seq, cap, OtherTables>>

\* instance.min_amount = value
ConstraintSetMin(c, value) ==
    /\ inst[c].pk >= 0
    /\ Save(c, [inst[c] EXCEPT !._min_amount = SetMinField(value)])
    /\ UNCHANGED <<cap, OtherTables>>

\* instance.max_amount = value
ConstraintSetMax(c, value) ==
    /\ inst[c].pk >= 0
    /\ Save(c, [inst[c] EXCEPT !._max_amount = SetMaxField(value)])
    /\ UNCHANGED <<cap, OtherTables>>

\* instance.delete(): the row goes and the instance loses its primary key.
ConstraintDelete(c) ==
    /\ inst[c].pk > 0
    /\ amountConstraints' = Remove(amountConstraints, inst[c].pk)
    /\ inst' = [inst EXCEPT ![c].pk = 0]
    /\ error' = ""
    /\ UNCHANGED <<seq, cap, OtherTables>>

\* AmountConstraints.objects.create(material_asset=a)
ConstraintCreate(a) ==
    LET out == SaveConstraint([pk |-> 0, material_asset |-> a,
                               _min_amount |-> DefaultAmount,
                               _max_amount |-> DefaultAmount]) IN
    /\ CanInsert("AmountConstraints")
    /\ amountConstraints' = out.rows
    /\ seq' = IF out.error = "" THEN Advance("AmountConstraints") ELSE seq
    /\ error' = out.error
    /\ UNCHANGED <<Frame, OtherTables>>

\* c = AmountConstraints.objects.get(pk=pk); c.material_asset = a; c.save()
ConstraintUpdate(pk, a) ==
    /\ pk \in DOMAIN amountConstraints
    /\ LET out == SaveConstraint([pk |-> pk, material_asset |-> a,
                                  _min_amount |-> amountConstraints[pk]._min_amount,
                                  _max_amount |-> amountConstraints[pk]._max_amount]) IN
       /\ amountConstraints' = out.rows
       /\ error' = out.error
    /\ UNCHANGED <<seq, Frame, OtherTables>>

\* AmountConstraints.objects.get(pk=pk).delete(): nothing refers to a constraint.
ConstraintRemove(pk) ==
    /\ pk \in DOMAIN amountConstraints
    /\ amountConstraints' = Remove(amountConstraints, pk)
    /\ error' = ""
    /\ UNCHANGED <<seq, Frame, OtherTables>>

----------------------------------------------------------------------------
(* MeasureUnit *)

\* MeasureUnit.objects.create(name=name)
MeasureUnitCreate(name) ==
    /\ CanInsert("MeasureUnit")
    /\ IF NameFree(measureUnit, 0, name)
       THEN /\ measureUnit' = Put(measureUnit, NextPk("MeasureUnit"), [name |-> name])
            /\ seq' = Advance("MeasureUnit")
            /\ error' = ""
       ELSE /\ error' = "IntegrityError"
            /\ UNCHANGED <<measureUnit, seq>>
    /\ UNCHANGED <<materialAsset, amountConstraints, documentType, warehouse,
                   contractorGroup, contractor, document, Frame>>

\* The material assets that refer to measure unit u (related_name MaterialAsset).
UnitAssets(u) == {k \in DOMAIN materialAsset : materialAsset[k].measure_unit = u}

\* unit.delete(): on_delete=PROTECT of MaterialAsset.measure_unit.
MeasureUnitDelete(pk) ==
    /\ pk \in DOMAIN measureUnit
    /\ IF UnitAssets(pk) # {}
       THEN error' = "ProtectedError" /\ UNCHANGED measureUnit
       ELSE error' = "" /\ measureUnit' = Remove(measureUnit, pk)
    /\ UNCHANGED <<materialAsset, amountConstraints, documentType, warehouse,
                   contractorGroup, contractor, document, seq, Frame>>

----------------------------------------------------------------------------
(* MaterialAsset *)

\* part_number without unique=True.
PartNumberFreeAlways(pk, pn) == TRUE

\* part_number is unique: no row other than `pk` holds part number pn.
PartNumberFree(pk, pn) ==
    \A k \in DOMAIN materialAsset \ {pk} : materialAsset[k].part_number # pn

\* measure_unit is NOT NULL and refers to a stored MeasureUnit.
AssetUnitExists(u) == u \in DOMAIN measureUnit

\* The constraints of the table hold for a row written under pk.
AssetRowAllowed(pk, pn, u) == PartNumberFree(pk, pn) /\ AssetUnitExists(u)

\* MaterialAsset.objects.create(part_number=pn, measure_unit=u)
MaterialAssetCreate(pn, u) ==
    /\ CanInsert("MaterialAsset")
    /\ IF AssetRowAllowed(0, pn, u)
       THEN /\ materialAsset' = Put(materialAsset, NextPk("MaterialAsset"),
                                    [part_number |-> pn, measure_unit |-> u])
            /\ seq' = Advance("MaterialAsset")
            /\ error' = ""
       ELSE /\ error' = "IntegrityError"
            /\ UNCHANGED <<materialAsset, seq>>
    /\ UNCHANGED <<measureUnit, amountConstraints, documentType, warehouse,
                   contractorGroup, contractor, document, Frame>>

\* asset.part_number = pn; asset.measure_unit = u; asset.save()
MaterialAssetUpdate(pk, pn, u) ==
    /\ pk \in DOMAIN materialAsset
    /\ IF AssetRowAllowed(pk, pn, u)
       THEN /\ materialAsset' = Put(materialAsset, pk,
                                    [part_number |-> pn, measure_unit |-> u])
            /\ error' = ""
       ELSE /\ error' = "IntegrityError"
            /\ UNCHANGED materialAsset
    /\ UNCHANGED <<measureUnit, amountConstraints, documentType, warehouse,
                   contractorGroup, contractor, document, seq, Frame>>

\* The constraints that refer to asset a (related_name Constraints).
AssetConstraints(a) ==
    {k \in DOMAIN amountConstraints : amountConstraints[k].material_asset = a}

\* The models whose Meta.ordering is a string and not a tuple: 'name' (lines
\* 21, 112, 169) and 'material_asset' (line 61).  A query on such a model that
\* keeps the default ordering takes the string one character at a time, finds
\* no field of that name and raises FieldError.
StringOrdered == {"MeasureUnit", "AmountConstraints", "DocumentType", "Contractor"}

\* asset.delete(): the AmountConstraints rows that refer to the asset are
\* fetched, in the default ordering of AmountConstraints, before
\* on_delete=PROTECT of AmountConstraints.material_asset is decided.
MaterialAssetDelete(pk) ==
    /\ pk \in DOMAIN materialAsset
    /\ IF "AmountConstraints" \in StringOrdered
       THEN error' = "FieldError" /\ UNCHANGED materialAsset
       ELSE IF AssetConstraints(pk) # {}
       THEN error' = "ProtectedError" /\ UNCHANGED materialAsset
       ELSE error' = "" /\ materialAsset' = Remove(materialAsset, pk)
    /\ UNCHANGED <<measureUnit, amountConstraints, documentType, warehouse,
                   contractorGroup, contractor, document, seq, Frame>>

----------------------------------------------------------------------------
(* DocumentType *)

\* DocumentType.TYPES as a dictionary: the label of each direction.
TYPES == [d \in {-1, 1} |-> IF d = -1 THEN "Out" ELSE "In"]

\* DocumentType.__str__ returns: dict(self.TYPES)[self.direction] is defined.
StrDefined(row) == row.direction \in DOMAIN TYPES

\* The signed total of an amount moved by a document of the type.
Signed(row, amount) == amount * row.direction

\* DocumentType.objects.create(name=name, direction=d): save() alone does not look
\* at choices; the unique name is the table's.
DocumentTypeCreate(name, d) ==
    /\ CanInsert("DocumentType")
    /\ IF NameFree(documentType, 0, name)
       THEN /\ documentType' = Put(documentType, NextPk("DocumentType"),
                                   [name |-> name, direction |-> d])
            /\ seq' = Advance("DocumentType")
            /\ error' = ""
       ELSE /\ error' = "IntegrityError"
            /\ UNCHANGED <<documentType, seq>>
    /\ UNCHANGED <<measureUnit, materialAsset, amountConstraints, warehouse,
                   contractorGroup, contractor, document, Frame>>

\* doctype.direction = d; doctype.save()
DocumentTypeUpdate(pk, d) ==
    /\ pk \in DOMAIN documentType
    /\ documentType' = [documentType EXCEPT ![pk].direction = d]
    /\ error' = ""
    /\ UNCHANGED <<measureUnit, materialAsset, amountConstraints, warehouse,
                   contractorGroup, contractor, document, seq, Frame>>

\* doctype.direction = d; doctype.full_clean(); doctype.save(), as a model form
\* does it: choices=TYPES is validated by full_clean().
DocumentTypeCleanUpdate(pk, d) ==
    /\ pk \in DOMAIN documentType
    /\ IF d \in DOMAIN TYPES
       THEN documentType' = [documentType EXCEPT ![pk].direction = d] /\ error' = ""
       ELSE error' = "ValidationError" /\ UNCHANGED documentType
    /\ UNCHANGED <<measureUnit, materialAsset, amountConstraints, warehouse,
                   contractorGroup, contractor, document, seq, Frame>>

\* The documents of type t (related_name document).
TypeDocuments(t) == {k \in DOMAIN document : document[k].document_type = t}

\* doctype.delete(): on_delete=PROTECT of Document.document_type.
DocumentTypeDelete(pk) ==
    /\ pk \in DOMAIN documentType
    /\ IF TypeDocuments(pk) # {}
       THEN error' = "ProtectedError" /\ UNCHANGED documentType
       ELSE error' = "" /\ documentType' = Remove(documentType, pk)
    /\ UNCHANGED <<measureUnit, materialAsset, amountConstraints, warehouse,
                   contractorGroup, contractor, document, seq, Frame>>

----------------------------------------------------------------------------
(* The MPTT trees: Warehouse and ContractorGroup *)

\* The children of node n in a tree table (related_name children).
Children(tree, n) == {k \in DOMAIN tree : tree[k].parent = n}

\* The outcome of saving node pk of a tree table with name `name` under parent
\* `parent`.  The parent is looked up through the foreign key and the name is
\* unique.  Whether the base class refuses the move (InvalidMove) it decides on
\* lft, rght and tree_id of the in-memory node and of its parent, columns the
\* rows here do not hold and that an earlier operation may have left out of
\* step with the parent links: the decision is the input `refused`.
TreeSave(tree, pk, name, parent, refused) ==
    IF parent # 0 /\ parent \notin DOMAIN tree
    THEN [error |-> "DoesNotExist", rows |-> tree]
    ELSE IF refused
    THEN [error |-> "InvalidMove", rows |-> tree]
    ELSE IF ~NameFree(tree, pk, name)
    THEN [error |-> "IntegrityError", rows |-> tree]
    ELSE [error |-> "", rows |-> Put(tree, pk, [name |-> name, parent |-> parent])]

\* The nested-set columns of tree table t after delete() of its node pk was
\* refused.  MPTTModel.delete() closes the gap the node would leave before the
\* deletion itself is attempted: it rewrites rght, and lft, of the nodes of the
\* same tree that end after the node, which are its ancestors and what lies to
\* their right.  A root has none.  The rewrite is undone with the refusal when
\* the call runs inside a transaction (atomic) and stays otherwise.
RefusedDelete(t, tree, pk, atomic) ==
    IF atomic \/ tree[pk].parent = 0
    THEN rewritten
    ELSE [rewritten EXCEPT ![t] = TRUE]

\* Warehouse.objects.create(name=name, parent=parent): a node not stored yet is
\* inserted, there is no move to refuse.
WarehouseCreate(name, parent) ==
    /\ CanInsert("Warehouse")
    /\ LET out == TreeSave(warehouse, NextPk("Warehouse"), name, parent, FALSE) IN
       /\ warehouse' = out.rows
       /\ seq' = IF out.error = "" THEN Advance("Warehouse") ELSE seq
       /\ error' = out.error
    /\ UNCHANGED <<measureUnit, materialAsset, amountConstraints, documentType,
                   contractorGroup, contractor, document, Frame>>

\* warehouse.parent = parent; warehouse.save()
WarehouseMove(pk, parent, refused) ==
    /\ pk \in DOMAIN warehouse
    /\ refused => parent # 0
    /\ LET out == TreeSave(warehouse, pk, warehouse[pk].name, parent, refused) IN
       /\ warehouse' = out.rows
       /\ error' = out.error
    /\ UNCHANGED <<measureUnit, materialAsset, amountConstraints, documentType,
                   contractorGroup, contractor, document, seq, Frame>>

\* The documents of warehouse w (related_name document).
WarehouseDocuments(w) == {k \in DOMAIN document : document[k].warehouse = w}

\* warehouse.delete(): on_delete=PROTECT of Warehouse.parent and Document.warehouse.
WarehouseDelete(pk, atomic) ==
    /\ pk \in DOMAIN warehouse
    /\ IF Children(warehouse, pk) # {} \/ WarehouseDocuments(pk) # {}
       THEN /\ error' = "ProtectedError"
            /\ rewritten' = RefusedDelete("Warehouse", warehouse, pk, atomic)
            /\ UNCHANGED warehouse
       ELSE /\ error' = ""
            /\ warehouse' = Remove(warehouse, pk)
            /\ UNCHANGED rewritten
    /\ UNCHANGED <<measureUnit, materialAsset, amountConstraints, documentType,
                   contractorGroup, contractor, document, seq, cap, inst>>

\* ContractorGroup.objects.create(name=name, parent=parent)
ContractorGroupCreate(name, parent) ==
    /\ CanInsert("ContractorGroup")
    /\ LET out == TreeSave(contractorGroup, NextPk("ContractorGroup"), name, parent,
                           FALSE) IN
       /\ contractorGroup' = out.rows
       /\ seq' = IF out.error = "" THEN Advance("ContractorGroup") ELSE seq
       /\ error' = out.error
    /\ UNCHANGED <<measureUnit, materialAsset, amountConstraints, documentType,
                   warehouse, contractor, document, Frame>>

\* group.parent = parent; group.save()
ContractorGroupMove(pk, parent, refused) ==
    /\ pk \in DOMAIN contractorGroup
    /\ refused => parent # 0
    /\ LET out == TreeSave(contractorGroup, pk, contractorGroup[pk].name, parent,
                           refused) IN
       /\ contractorGroup' = out.rows
       /\ error' = out.error
    /\ UNCHANGED <<measureUnit, materialAsset, amountConstraints, documentType,
                   warehouse, contractor, document, seq, Frame>>

\* group.delete(): on_delete=PROTECT of ContractorGroup.parent.
ContractorGroupDelete(pk, atomic) ==
    /\ pk \in DOMAIN contractorGroup
    /\ IF Children(contractorGroup, pk) # {}
       THEN /\ error' = "ProtectedError"
            /\ rewritten' = RefusedDelete("ContractorGroup", contractorGroup, pk, atomic)
            /\ UNCHANGED contractorGroup
       ELSE /\ error' = ""
            /\ contractorGroup' = Remove(contractorGroup, pk)
            /\ UNCHANGED rewritten
    /\ UNCHANGED <<measureUnit, materialAsset, amountConstraints, documentType,
                   warehouse, contractor, document, seq, cap, inst>>

----------------------------------------------------------------------------
(* Contractor and Document *)

\* Contractor.objects.create(...)
ContractorCreate ==
    /\ CanInsert("Contractor")
    /\ contractor' = contractor \cup {NextPk("Contractor")}
    /\ seq' = Advance("Contractor")
    /\ error' = ""
    /\ UNCHANGED <<measureUnit, materialAsset, amountConstraints, documentType,
                   warehouse, contractorGroup, document, Frame>>

\* The documents of contractor c (related_name document).
ContractorDocuments(c) == {k \in DOMAIN document : document[k].contractor = c}

\* contractor.delete(): on_delete=PROTECT of Document.contractor.
ContractorDelete(pk) ==
    /\ pk \in contractor
    /\ IF ContractorDocuments(pk) # {}
       THEN error' = "ProtectedError" /\ UNCHANGED contractor
       ELSE error' = "" /\ contractor' = contractor \ {pk}
    /\ UNCHANGED <<measureUnit, materialAsset, amountConstraints, documentType,
                   warehouse, contractorGroup, document, seq, Frame>>

\* The three foreign keys of a document are NOT NULL and refer to stored rows.
DocumentRowAllowed(t, w, c) ==
    t \in DOMAIN documentType /\ w \in DOMAIN warehouse /\ c \in contractor

\* Document.objects.create(document_type=t, warehouse=w, contractor=c)
DocumentCreate(t, w, c) ==
    /\ CanInsert("Document")
    /\ IF DocumentRowAllowed(t, w, c)
       THEN /\ document' = Put(document, NextPk("Document"),
                               [document_type |-> t, warehouse |-> w, contractor |-> c])
            /\ seq' = Advance("Document")
            /\ error' = ""
       ELSE /\ error' = "IntegrityError"
            /\ UNCHANGED <<document, seq>>
    /\ UNCHANGED <<measureUnit, materialAsset, amountConstraints, documentType,
                   warehouse, contractorGroup, contractor, Frame>>

\* document.delete(): nothing refers to a document.
DocumentDelete(pk) ==
    /\ pk \in DOMAIN document
    /\ document' = Remove(document, pk)
    /\ error' = ""
    /\ UNCHANGED <<measureUnit, materialAsset, amountConstraints, documentType,
                   warehouse, contractorGroup, contractor, seq, Frame>>

----------------------------------------------------------------------------
(* The amount constraints of a stored asset, worked on through two in-memory
   instances. *)

InitConstraints ==
    /\ measureUnit = [pk \in {1} |-> [name |-> 1]]
    /\ materialAsset = [pk \in {1} |-> [part_number |-> 1, measure_unit |-> 1]]
    /\ amountConstraints = Empty
    /\ documentType = Empty
    /\ warehouse = Empty
    /\ contractorGroup = Empty
    /\ contractor = {}
    /\ document = Empty
    /\ seq = [t \in Tables |-> IF t \in {"MeasureUnit", "MaterialAsset"} THEN 1 ELSE 0]
    /\ cap = [t \in Tables |-> IF t = "AmountConstraints" THEN MaxConstraints ELSE 1]
    /\ inst = [c \in Copies |-> NoInstance]
    /\ rewritten = [t \in TreeTables |-> FALSE]
    /\ error = ""

NextConstraints ==
    \/ \E c \in Copies, a \in DOMAIN materialAsset : ConstraintNew(c, a)
    \/ \E c \in Copies, pk \in DOMAIN amountConstraints : ConstraintGet(c, pk)
    \/ \E c \in Copies : ConstraintSave(c)
    \/ \E c \in Copies, value \in Values : ConstraintSetMin(c, value)
    \/ \E c \in Copies, value \in Values : ConstraintSetMax(c, value)
    \/ \E c \in Copies : ConstraintDelete(c)

SpecConstraints == InitConstraints /\ [][NextConstraints]_vars

----------------------------------------------------------------------------
(* Part numbers and constraints of the material assets. *)

\* The database before the first row is stored, the run allowed `n(t)` rows in
\* table t.
EmptyDatabase ==
    /\ measureUnit = Empty
    /\ materialAsset = Empty
    /\ amountConstraints = Empty
    /\ documentType = Empty
    /\ warehouse = Empty
    /\ contractorGroup = Empty
    /\ contractor = {}
    /\ document = Empty
    /\ seq = [t \in Tables |-> 0]
    /\ inst = [c \in Copies |-> NoInstance]
    /\ rewritten = [t \in TreeTables |-> FALSE]
    /\ error = ""

PartNumbers == 1..MaxPartNumber

InitAssets ==
    /\ EmptyDatabase
    /\ cap = [t \in Tables |-> IF t = "MeasureUnit" THEN MaxUnits
                               ELSE IF t \in {"MaterialAsset", "AmountConstraints"}
                                    THEN MaxAssets ELSE 0]

NextAssets ==
    \/ \E name \in Names("MeasureUnit") : MeasureUnitCreate(name)
    \/ \E pk \in DOMAIN measureUnit : MeasureUnitDelete(pk)
    \/ \E pn \in PartNumbers, u \in 1..MaxUnits : MaterialAssetCreate(pn, u)
    \/ \E pk \in DOMAIN materialAsset, pn \in PartNumbers, u \in 1..MaxUnits :
          MaterialAssetUpdate(pk, pn, u)
    \/ \E pk \in DOMAIN materialAsset : MaterialAssetDelete(pk)
    \/ \E a \in 1..MaxAssets : ConstraintCreate(a)
    \/ \E pk \in DOMAIN amountConstraints, a \in 1..MaxAssets : ConstraintUpdate(pk, a)
    \/ \E pk \in DOMAIN amountConstraints : ConstraintRemove(pk)

SpecAssets == InitAssets /\ [][NextAssets]_vars

----------------------------------------------------------------------------
(* The stored directions of the document types. *)

\* The directions handed to save(): the two of TYPES and two others.
Directions == {-1, 0, 1, 2}

InitDocumentType ==
    /\ EmptyDatabase
    /\ cap = [t \in Tables |-> IF t = "DocumentType" THEN MaxDocumentTypes ELSE 0]

NextDocumentType ==
    \/ \E name \in Names("DocumentType"), d \in Directions : DocumentTypeCreate(name, d)
    \/ \E pk \in DOMAIN documentType, d \in Directions : DocumentTypeUpdate(pk, d)
    \/ \E pk \in DOMAIN documentType, d \in Directions : DocumentTypeCleanUpdate(pk, d)
    \/ \E pk \in DOMAIN documentType : DocumentTypeDelete(pk)

SpecDocumentType == InitDocumentType /\ [][NextDocumentType]_vars

----------------------------------------------------------------------------
(* The two trees. *)

InitTree ==
    /\ EmptyDatabase
    /\ cap = [t \in Tables |-> IF t = "Warehouse" THEN MaxNodes
                               ELSE IF t = "ContractorGroup" THEN MaxGroups ELSE 0]

NextTree ==
    \/ \E name \in Names("Warehouse"), parent \in 0..MaxNodes :
          WarehouseCreate(name, parent)
    \/ \E pk \in DOMAIN warehouse, parent \in 0..MaxNodes, refused \in BOOLEAN :
          WarehouseMove(pk, parent, refused)
    \/ \E pk \in DOMAIN warehouse, atomic \in BOOLEAN : WarehouseDelete(pk, atomic)
    \/ \E name \in Names("ContractorGroup"), parent \in 0..MaxGroups :
          ContractorGroupCreate(name, parent)
    \/ \E pk \in DOMAIN contractorGroup, parent \in 0..MaxGroups, refused \in BOOLEAN :
          ContractorGroupMove(pk, parent, refused)
    \/ \E pk \in DOMAIN contractorGroup, atomic \in BOOLEAN :
          ContractorGroupDelete(pk, atomic)

SpecTree == InitTree /\ [][NextTree]_vars

----------------------------------------------------------------------------
(* All eight tables: rows created and deleted along the foreign keys.  A
   measure unit, document type or warehouse gets a name not given before,
   every warehouse is a root, and a delete runs outside a transaction. *)

InitIntegrity ==
    /\ EmptyDatabase
    /\ cap = [t \in Tables |-> MaxRows]

NextIntegrity ==
    \/ MeasureUnitCreate(NextPk("MeasureUnit"))
    \/ \E pk \in DOMAIN measureUnit : MeasureUnitDelete(pk)
    \/ \E u \in 1..MaxRows : MaterialAssetCreate(1, u)
    \/ \E pk \in DOMAIN materialAsset : MaterialAssetDelete(pk)
    \/ \E a \in 1..MaxRows : ConstraintCreate(a)
    \/ \E pk \in DOMAIN amountConstraints : ConstraintRemove(pk)
    \/ DocumentTypeCreate(NextPk("DocumentType"), 1)
    \/ \E pk \in DOMAIN documentType : DocumentTypeDelete(pk)
    \/ WarehouseCreate(NextPk("Warehouse"), 0)
    \/ \E pk \in DOMAIN warehouse : WarehouseDelete(pk, FALSE)
    \/ ContractorCreate
    \/ \E pk \in contractor : ContractorDelete(pk)
    \/ \E t \in 1..MaxRows, w \in 1..MaxRows, c \in 1..MaxRows : DocumentCreate(t, w, c)
    \/ \E pk \in DOMAIN document : DocumentDelete(pk)

SpecIntegrity == InitIntegrity /\ [][NextIntegrity]_vars

----------------------------------------------------------------------------
(* Properties of the accessors of AmountConstraints (SpecConstraints). *)

\* The stored rows and the loaded instances, as rows.
ConstraintRecords ==
    {amountConstraints[k] : k \in DOMAIN amountConstraints}
       \cup {RowOf(inst[c]) : c \in {x \in Copies : inst[x].pk >= 0}}

\* C1: reading min_amount (max_amount) of a record gives infinity when the
\* stored field is -1 and the stored value itself when it is a non-negative
\* integer.
C1_GetterMapsSentinel ==
    \A r \in ConstraintRecords :
        /\ r._min_amount = -1 => min_amount(r) = PosInf
        /\ r._min_amount >= 0 => min_amount(r) = PyInt(r._min_amount)
        /\ r._max_amount = -1 => max_amount(r) = PosInf
        /\ r._max_amount >= 0 => max_amount(r) = PyInt(r._max_amount)

\* A stored row with no minimum, and one with a zero minimum and a positive maximum.
C1_Witness ==
    /\ \E k \in DOMAIN amountConstraints :
          /\ amountConstraints[k]._min_amount = -1
          /\ amountConstraints[k]._max_amount = MaxAmount
    /\ \E c \in Copies : inst[c].pk >= 0 /\ inst[c]._min_amount = 0

\* C2: a stored -1 makes the constraint unbounded in that direction: with
\* _min_amount = -1 every quantity q has min_amount <= q, with _max_amount = -1
\* every quantity q has q <= max_amount.
C2_SentinelUnbounded ==
    \A r \in ConstraintRecords : \A q \in Quantities :
        /\ r._min_amount = -1 => Leq(min_amount(r), q)
        /\ r._max_amount = -1 => Leq(q, max_amount(r))

\* A value the round trip is claimed for: infinity or a non-negative integer.
RoundTripValue(v) == v = PosInf \/ (v.inf = 0 /\ v.n >= 0)

\* The step assigns min_amount = v on copy c.  (The first conjunct follows from
\* the second; it comes first to spare the evaluation of the second on the
\* steps of other operations.)
SetsMin(c, v) == inst'[c]._min_amount = SetMinField(v) /\ ConstraintSetMin(c, v)

\* The step assigns max_amount = v on copy c.
SetsMax(c, v) == inst'[c]._max_amount = SetMaxField(v) /\ ConstraintSetMax(c, v)

\* C3: assigning min_amount = v (max_amount = v), v infinity or a non-negative
\* integer, and reading it back gives v; assigning infinity stores -1.
C3_RoundTrip ==
    [][\A c \in Copies, v \in Values :
          /\ (RoundTripValue(v) /\ SetsMin(c, v))
                => /\ min_amount(inst'[c]) = v
                   /\ v = PosInf => inst'[c]._min_amount = -1
          /\ (RoundTripValue(v) /\ SetsMax(c, v))
                => /\ max_amount(inst'[c]) = v
                   /\ v = PosInf => inst'[c]._max_amount = -1]_vars

\* An instance whose minimum was assigned MaxAmount and whose maximum 0, stored.
C3_Witness ==
    \E c \in Copies :
        /\ inst[c].pk \in DOMAIN amountConstraints
        /\ inst[c]._min_amount = MaxAmount
        /\ inst[c]._max_amount = 0
        /\ amountConstraints[inst[c].pk] = RowOf(inst[c])

\* The instance of copy c is stored as it is.
Persisted(c) ==
    /\ inst[c].pk \in DOMAIN amountConstraints
    /\ amountConstraints[inst[c].pk] = RowOf(inst[c])

\* C9: assigning min_amount stores the record at once and changes only the
\* minimum of the instance, not its _max_amount nor its material_asset; the
\* same for max_amount with _min_amount.
C9_SetterFrame ==
    [][\A c \in Copies, v \in Values :
          /\ SetsMin(c, v)
                => /\ inst'[c]._max_amount = inst[c]._max_amount
                   /\ inst'[c].material_asset = inst[c].material_asset
                   /\ error' = "" => Persisted(c)'
          /\ SetsMax(c, v)
                => /\ inst'[c]._min_amount = inst[c]._min_amount
                   /\ inst'[c].material_asset = inst[c].material_asset
                   /\ error' = "" => Persisted(c)']_vars

\* A never saved instance became a stored row with a maximum by one assignment:
\* the other copy holds no instance and the minimum is still the default.
C9_Witness ==
    /\ inst["a"].pk = 1 /\ inst["a"]._max_amount = MaxAmount
    /\ inst["a"]._min_amount = DefaultAmount
    /\ inst["b"] = NoInstance
    /\ Persisted("a")
    /\ error = ""

\* Copy c holds a stored record and a maximum other than the one v stands for.
NewMax(c, v) ==
    inst[c].pk \in DOMAIN amountConstraints /\ inst[c]._max_amount # SetMaxField(v)

\* Copy c holds a stored record and a minimum other than the one v stands for.
NewMin(c, v) ==
    inst[c].pk \in DOMAIN amountConstraints /\ inst[c]._min_amount # SetMinField(v)

\* C10: no lost update between the two setters: of two copies of a stored
\* record, the one that assigns max_amount = b leaves the stored minimum as the
\* other assigned it, and the one that assigns min_amount = a leaves the stored
\* maximum: the stored record ends with minimum a and maximum b.
C10_NoLostUpdate ==
    [][\A c \in Copies, v \in Values :
          /\ (NewMax(c, v) /\ SetsMax(c, v))
                => amountConstraints'[inst[c].pk]._min_amount
                      = amountConstraints[inst[c].pk]._min_amount
          /\ (NewMin(c, v) /\ SetsMin(c, v))
                => amountConstraints'[inst[c].pk]._max_amount
                      = amountConstraints[inst[c].pk]._max_amount]_vars

----------------------------------------------------------------------------
(* Properties of the material assets and their constraints (SpecAssets). *)

\* No two stored assets have the same part number.
PartNumbersDistinct ==
    \A j, k \in DOMAIN materialAsset :
        materialAsset[j].part_number = materialAsset[k].part_number => j = k

\* Part number pn is held by a stored asset other than pk.
PartNumberTaken(pk, pn) ==
    \E k \in DOMAIN materialAsset : k # pk /\ materialAsset[k].part_number = pn

\* C4: no two stored MaterialAsset rows have the same part_number; a create or
\* update that would give a second asset a used part_number is rejected and
\* leaves the stored assets unchanged.
C4_UniquePartNumber ==
    /\ []PartNumbersDistinct
    /\ [][/\ \A pn \in PartNumbers, u \in 1..MaxUnits :
               (MaterialAssetCreate(pn, u) /\ PartNumberTaken(0, pn))
                  => materialAsset' = materialAsset /\ error' = "IntegrityError"
          /\ \A pk \in DOMAIN materialAsset, pn \in PartNumbers, u \in 1..MaxUnits :
               (MaterialAssetUpdate(pk, pn, u) /\ PartNumberTaken(pk, pn))
                  => materialAsset' = materialAsset /\ error' = "IntegrityError"]_vars

\* Every part number is in use by a stored asset of an existing unit, and the
\* last operation was refused.
C4_Witness ==
    /\ \A pn \in PartNumbers : PartNumberTaken(0, pn)
    /\ \A k \in DOMAIN materialAsset : materialAsset[k].measure_unit \in DOMAIN measureUnit
    /\ amountConstraints = Empty
    /\ error = "IntegrityError"

\* No two stored constraints are for the same asset.
ConstraintsDistinct ==
    \A j, k \in DOMAIN amountConstraints :
        amountConstraints[j].material_asset = amountConstraints[k].material_asset
           => j = k

\* Asset a has a stored constraint other than pk.
AssetConstrained(pk, a) ==
    \E k \in DOMAIN amountConstraints :
        k # pk /\ amountConstraints[k].material_asset = a

\* C8: each material asset has at most one stored AmountConstraints row; a
\* create (or an update) that would give an asset a second one is rejected and
\* leaves the stored constraints unchanged.
C8_OneConstraintPerAsset ==
    /\ []ConstraintsDistinct
    /\ [][/\ \A a \in 1..MaxAssets :
               (ConstraintCreate(a) /\ AssetConstrained(0, a))
                  => /\ amountConstraints' = amountConstraints
                     /\ error' = "IntegrityError"
          /\ \A pk \in DOMAIN amountConstraints, a \in 1..MaxAssets :
               (ConstraintUpdate(pk, a) /\ AssetConstrained(pk, a))
                  => /\ amountConstraints' = amountConstraints
                     /\ error' = "IntegrityError"]_vars

\* Every stored asset has its constraint, two of them at least, and the last
\* operation was refused.
C8_Witness ==
    /\ Cardinality(DOMAIN amountConstraints) >= 2
    /\ \A a \in DOMAIN materialAsset : AssetConstrained(0, a)
    /\ PartNumbersDistinct
    /\ error = "IntegrityError"

----------------------------------------------------------------------------
(* Property of the document types (SpecDocumentType). *)

\* The amounts a document moves.
Amounts == 0..MaxQuantity

\* C5: every stored DocumentType has direction +1 or -1, so that
\* amount * direction is +amount or -amount and the label looked up by
\* __str__ is defined.
C5_DirectionSigned ==
    \A k \in DOMAIN documentType :
        /\ documentType[k].direction \in {-1, 1}
        /\ StrDefined(documentType[k])
        /\ \A amount \in Amounts : Signed(documentType[k], amount) \in {amount, -amount}

----------------------------------------------------------------------------
(* Property of the foreign keys (SpecIntegrity). *)

\* Every foreign key of every stored row refers to a stored row.
References ==
    /\ \A k \in DOMAIN document :
          /\ document[k].document_type \in DOMAIN documentType
          /\ document[k].warehouse \in DOMAIN warehouse
          /\ document[k].contractor \in contractor
    /\ \A k \in DOMAIN materialAsset : materialAsset[k].measure_unit \in DOMAIN measureUnit
    /\ \A k \in DOMAIN amountConstraints :
          amountConstraints[k].material_asset \in DOMAIN materialAsset

\* The stored tables.
Stored == <<measureUnit, materialAsset, amountConstraints, documentType, warehouse,
            contractorGroup, contractor, document>>

\* The last step left every stored row as it was and raised ProtectedError.
Protected == Stored' = Stored /\ error' = "ProtectedError"

\* C7: every stored Document refers to a stored DocumentType, Warehouse and
\* Contractor, every MaterialAsset to a stored MeasureUnit and every
\* AmountConstraints to a stored MaterialAsset; deleting a row that is still
\* referred to is rejected with ProtectedError and leaves all rows unchanged.
C7_ReferentialIntegrity ==
    /\ []References
    /\ [][/\ \A pk \in DOMAIN measureUnit :
               ((\E k \in DOMAIN materialAsset : materialAsset[k].measure_unit = pk)
                   /\ MeasureUnitDelete(pk))
                  => Protected
          /\ \A pk \in DOMAIN materialAsset :
               ((\E k \in DOMAIN amountConstraints :
                         amountConstraints[k].material_asset = pk)
                   /\ MaterialAssetDelete(pk))
                  => Protected
          /\ \A pk \in DOMAIN documentType :
               ((\E k \in DOMAIN document : document[k].document_type = pk)
                   /\ DocumentTypeDelete(pk))
                  => Protected
          /\ \A pk \in DOMAIN warehouse, atomic \in BOOLEAN :
               ((\E k \in DOMAIN document : document[k].warehouse = pk)
                   /\ WarehouseDelete(pk, atomic))
                  => Protected
          /\ \A pk \in contractor :
               ((\E k \in DOMAIN document : document[k].contractor = pk)
                   /\ ContractorDelete(pk))
                  => Protected]_vars

====
